---- MODULE Spec2Model ----
(***************************************************************************)
(* Model of scripts/merge_avatar_animations.py: main() drives the host     *)
(* (Blender) through clear scene, avatar import, one import/constrain/     *)
(* bake/stash round per animation clip, verification and export.           *)
(*                                                                         *)
(* What the host returns (the objects an importer creates, the action a    *)
(* bake produces, the order of a directory listing) is not decided by the  *)
(* script; it is drawn from the bounded sets below.  Host operators are    *)
(* taken to succeed (none raises), as the script assumes; the only raise   *)
(* modelled is the script's own RuntimeError.  Orphan datablock purging    *)
(* in clear_scene and the print statements are not observable by any       *)
(* later step of the script and are left out.                              *)
(***************************************************************************)
EXTENDS Integers, Sequences, FiniteSets, TLC

VARIABLES
    pc,                   \* position in main() / import_and_transfer_animation()
    calls,                \* functions main() has called so far, in order
    objects,              \* bpy.data.objects: the objects in the scene
    target,               \* the avatar armature returned by import_glb_avatar
    SELECTED_ANIMATIONS,  \* the configured list of clip names
    dir,                  \* names present in ANIMATIONS_DIR
    fbx_files,            \* main(): the list of clips to process
    results,              \* one entry per finished import_and_transfer_animation call
    imported_count,       \* main(): imported_count
    source,               \* the source armature of the clip being processed
    constrained_count,    \* import_and_transfer_animation(): constrained_count
    verify_ok,            \* what verify_animations returned
    output                \* the file written by export_glb

vars == <<pc, calls, objects, target, SELECTED_ANIMATIONS, dir, fbx_files,
          results, imported_count, source, constrained_count, verify_ok, output>>

(* Python None.  Every optional value of the model is a record, and a record
   with other fields is never equal to this one. *)
None == [none |-> TRUE]

----------------------------------------------------------------------------
(* Bounds of the model *)

MaxSelected == 2     \* longest SELECTED_ANIMATIONS list tried
MaxChildren == 1     \* most child meshes an imported file brings
MaxKeyframes == 3    \* most keyframes on an fcurve
MaxTracks == 2       \* most NLA tracks on an armature handed to verify_animations
MaxStrips == 2       \* most strips on one NLA track handed to verify_animations

(* `if kf_count <= 2` *)
KeyframeThreshold == 2

----------------------------------------------------------------------------
(* Helpers *)

BSeq(S, n) == UNION {[1..k -> S] : k \in 0..n}

Range(s) == {s[i] : i \in DOMAIN s}

NoDup(s) == \A i, j \in DOMAIN s : i # j => s[i] # s[j]

Perms(S) == {s \in [1..Cardinality(S) -> S] : Range(s) = S}

----------------------------------------------------------------------------
(* Input domains *)

(* File names are a stem (a sequence of characters) and a suffix. *)
FileNames ==
    { [stem |-> <<"I", "d", "l", "e">>, suffix |-> ".fbx"],
      [stem |-> <<"A", " ", "B">>,      suffix |-> ".fbx"],
      [stem |-> <<"n", "-", "1">>,      suffix |-> ".txt"] }

SelectedLists == {s \in BSeq(FileNames, MaxSelected) : NoDup(s)}

(* target_armature.pose.bones, in order *)
TargetBoneLists == { <<"Hips", "Spine", "Head">>, <<"Spine", "Head">> }

(* {b.name for b in source_armature.data.bones} *)
SourceBoneSets == SUBSET {"Hips", "Spine"}

(* A layered action: layers[].strips[].channelbags[].fcurves[], an fcurve  *)
(* being its number of keyframe_points.  The host keeps at most one layer  *)
(* with at most one strip.                                                 *)
FCurveLists == BSeq(KeyframeThreshold..MaxKeyframes, 1)
ChannelbagLists == BSeq(FCurveLists, 2)
ActionLayers == BSeq(BSeq(ChannelbagLists, 1), 1)

Action(name, layers) == [name |-> name, layers |-> layers]

(* What nla.bake leaves as the target's active action: one layer, one     *)
(* strip, one channelbag of fcurves with one key per baked frame.          *)
BakedLayers == { << << << <<k>> >> >> >> : k \in KeyframeThreshold..MaxKeyframes }

DefaultScene ==
    { [from |-> -1, type |-> "MESH",   n |-> 0, parented |-> FALSE],
      [from |-> -1, type |-> "CAMERA", n |-> 0, parented |-> FALSE],
      [from |-> -1, type |-> "LIGHT",  n |-> 0, parented |-> FALSE] }

----------------------------------------------------------------------------
(* get_keyframe_count: the nested loops return at the first channelbag     *)
(* that has an fcurve; each level yields <<n>> when it returned n and <<>> *)
(* when its loop ran out.                                                  *)

RECURSIVE KeyframesInBags(_, _)
KeyframesInBags(channelbags, i) ==
    IF i > Len(channelbags) THEN <<>>
    ELSE IF channelbags[i] # <<>> THEN << channelbags[i][1] >>
    ELSE KeyframesInBags(channelbags, i + 1)

RECURSIVE KeyframesInStrips(_, _)
KeyframesInStrips(strips, i) ==
    IF i > Len(strips) THEN <<>>
    ELSE LET r == KeyframesInBags(strips[i], 1)
         IN  IF r # <<>> THEN r ELSE KeyframesInStrips(strips, i + 1)

RECURSIVE KeyframesInLayers(_, _)
KeyframesInLayers(layers, i) ==
    IF i > Len(layers) THEN <<>>
    ELSE LET r == KeyframesInStrips(layers[i], 1)
         IN  IF r # <<>> THEN r ELSE KeyframesInLayers(layers, i + 1)

get_keyframe_count(action) ==
    LET r == KeyframesInLayers(action.layers, 1)
    IN  IF r # <<>> THEN r[1] ELSE 0

(* One strip of verify_animations' inner loop: the new value of all_good. *)
VerifyStrip_Strict(strip, all_good) ==
    IF strip.action # None
    THEN IF get_keyframe_count(strip.action) < KeyframeThreshold THEN FALSE ELSE all_good
    ELSE FALSE

VerifyStrip(strip, all_good) ==
    IF strip.action # None
    THEN IF get_keyframe_count(strip.action) <= KeyframeThreshold THEN FALSE ELSE all_good
    ELSE FALSE

RECURSIVE VerifyStrips(_, _, _)
VerifyStrips(strips, i, all_good) ==
    IF i > Len(strips) THEN all_good
    ELSE VerifyStrips(strips, i + 1, VerifyStrip(strips[i], all_good))

RECURSIVE VerifyTracks(_, _, _)
VerifyTracks(nla_tracks, i, all_good) ==
    IF i > Len(nla_tracks) THEN all_good
    ELSE VerifyTracks(nla_tracks, i + 1, VerifyStrips(nla_tracks[i].strips, 1, all_good))

verify_animations(armature) ==
    IF armature.animation_data = None THEN FALSE
    ELSE VerifyTracks(armature.animation_data.nla_tracks, 1, TRUE)

----------------------------------------------------------------------------
(* Names and file selection *)

(* str.replace(old, new) on a sequence of characters *)
Replace(s, old, new) == [i \in DOMAIN s |-> IF s[i] = old THEN new ELSE s[i]]

(* animation_name = fbx_path.stem.replace(" ", "_").replace("-", "_") *)
AnimationName(fbx_path) == Replace(Replace(fbx_path.stem, " ", "_"), "-", "_")

(* [f for f in fbx_files if f.exists()] *)
RECURSIVE Existing(_, _, _)
Existing(names, i, present) ==
    IF i > Len(names) THEN <<>>
    ELSE IF names[i] \in present
         THEN <<names[i]>> \o Existing(names, i + 1, present)
         ELSE Existing(names, i + 1, present)

(* ANIMATIONS_DIR.glob("*.fbx"), in whatever order the file system lists it *)
Glob(present) == Perms({f \in present : f.suffix = ".fbx"})

(* main(): the lists fbx_files may become *)
FbxFileLists_Fallback(selected, present) ==
    IF Existing(selected, 1, present) # <<>>
    THEN { Existing(selected, 1, present) } ELSE Glob(present)

FbxFileLists(selected, present) ==
    IF selected # <<>> THEN { Existing(selected, 1, present) } ELSE Glob(present)

----------------------------------------------------------------------------
(* Control flow of main() *)

MainSteps_ImportFirst ==
    << "import_glb_avatar", "clear_scene", "select_files", "clips",
       "verify_animations", "export_glb" >>

MainSteps_ExportFirst ==
    << "clear_scene", "import_glb_avatar", "select_files", "clips",
       "export_glb", "verify_animations" >>

MainSteps ==
    << "clear_scene", "import_glb_avatar", "select_files", "clips",
       "verify_animations", "export_glb" >>

AfterStep(step) ==
    LET i == CHOOSE j \in DOMAIN MainSteps : MainSteps[j] = step
    IN  IF i < Len(MainSteps) THEN MainSteps[i + 1] ELSE "done"

(* `for fbx_path in fbx_files`: the loop is left once every file is done *)
RECURSIVE Enter(_, _, _)
Enter(step, done, files) ==
    IF step = "clips" /\ done >= Len(files) THEN Enter(AfterStep("clips"), done, files)
    ELSE step

----------------------------------------------------------------------------
(* Scene objects *)

Armature(k) == [from |-> k, type |-> "ARMATURE", n |-> 0, parented |-> FALSE]

Mesh(k, j, parented) == [from |-> k, type |-> "MESH", n |-> j, parented |-> parented]

(* the objects an importer adds for file k *)
Imported(k, armature, meshes) ==
    (IF armature THEN {Armature(k)} ELSE {})
        \cup {Mesh(k, j, armature) : j \in 1..meshes}

Children(objs, k) == {o \in objs : o.from = k /\ o.parented}

(* bpy.data.objects.remove(obj, do_unlink=True): the children of a removed
   object stay in the scene, without a parent *)
Remove(objs, obj) ==
    {IF o.from = obj.from /\ o.parented THEN [o EXCEPT !.parented = FALSE] ELSE o
        : o \in objs \ {obj}}

----------------------------------------------------------------------------
(* What the host hands back *)

(* The avatar's animation data after the glTF import: none, empty, or one
   animation of the file stashed in an NLA track. *)
AvatarAnimData ==
    { None, [action |-> None, nla_tracks |-> <<>>] }
    \cup { [action |-> None,
            nla_tracks |-> << [name |-> <<"w">>,
                               strips |-> << [name |-> <<"w">>,
                                              action |-> Action(<<"w">>, l)] >>] >>]
           : l \in BakedLayers }

(* What an FBX import brings: an armature or not, its bones, whether it has
   animation data and an action, and the meshes that come with it. *)
FbxImports ==
    { [armature |-> FALSE, bones |-> {}, animation |-> "none", meshes |-> m]
        : m \in 0..MaxChildren }
    \cup { [armature |-> TRUE, bones |-> b, animation |-> a, meshes |-> m]
        : b \in SourceBoneSets, a \in {"none", "no_action", "action"},
          m \in 0..MaxChildren }

(* pose_bone.constraints.new(type) with target, subtarget and both spaces set *)
Constraint(type, k, bone) ==
    [type |-> type, target |-> k, subtarget |-> bone,
     target_space |-> "WORLD", owner_space |-> "WORLD"]

(* The loop over target_armature.pose.bones from bone i on: the constraint
   stacks and constrained_count it ends with. *)
RECURSIVE ConstrainBones_LocAll(_, _, _, _, _)
ConstrainBones_LocAll(bones, i, src, constraints, count) ==
    IF i > Len(bones) THEN [constraints |-> constraints, count |-> count]
    ELSE IF bones[i] \notin src.bones
         THEN ConstrainBones_LocAll(bones, i + 1, src, constraints, count)
         ELSE ConstrainBones_LocAll(bones, i + 1, src,
                  [constraints EXCEPT ![bones[i]] =
                      @ \o <<Constraint("COPY_ROTATION", src.idx, bones[i]),
                              Constraint("COPY_LOCATION", src.idx, bones[i])>>],
                  count + 1)

RECURSIVE ConstrainBones(_, _, _, _, _)
ConstrainBones(bones, i, src, constraints, count) ==
    IF i > Len(bones) THEN [constraints |-> constraints, count |-> count]
    ELSE IF bones[i] \notin src.bones
         THEN ConstrainBones(bones, i + 1, src, constraints, count)
         ELSE LET c_rot == <<Constraint("COPY_ROTATION", src.idx, bones[i])>>
                  c_loc == IF bones[i] = "Hips"
                           THEN <<Constraint("COPY_LOCATION", src.idx, bones[i])>>
                           ELSE <<>>
              IN  ConstrainBones(bones, i + 1, src,
                      [constraints EXCEPT ![bones[i]] = @ \o c_rot \o c_loc],
                      count + 1)

----------------------------------------------------------------------------
(* Initial state: a fresh host process, the configured list and the         *)
(* contents of the animations directory.                                    *)

Init ==
    /\ pc = MainSteps[1]
    /\ calls = <<>>
    /\ objects \in { {}, DefaultScene }
    /\ target = None
    /\ SELECTED_ANIMATIONS \in SelectedLists
    /\ dir \in SUBSET FileNames
    /\ fbx_files = <<>>
    /\ results = <<>>
    /\ imported_count = 0
    /\ source = None
    /\ constrained_count = 0
    /\ verify_ok = <<>>
    /\ output = <<>>

(* main(): clear_scene() *)
ClearScene ==
    /\ pc = "clear_scene"
    /\ calls' = Append(calls, "clear_scene")
    /\ objects' = {}
    /\ pc' = Enter(AfterStep("clear_scene"), Len(results), fbx_files)
    /\ UNCHANGED <<target, SELECTED_ANIMATIONS, dir, fbx_files, results,
                   imported_count, source, constrained_count, verify_ok, output>>

(* import_glb_avatar: `if not armature: raise RuntimeError`, which nothing
   catches; otherwise main() goes on *)
AfterAvatarImport_NoRaise(found) ==
    Enter(AfterStep("import_glb_avatar"), Len(results), fbx_files)

AfterAvatarImport(found) ==
    IF ~found THEN "raised"
    ELSE Enter(AfterStep("import_glb_avatar"), Len(results), fbx_files)

(* main(): armature = import_glb_avatar(AVATAR_GLB_PATH) *)
ImportGlbAvatar ==
    /\ pc = "import_glb_avatar"
    /\ calls' = Append(calls, "import_glb_avatar")
    /\ \E found \in BOOLEAN :
          /\ objects' = objects \cup Imported(0, found, MaxChildren)
          /\ IF ~found
             THEN target' = target
             ELSE \E bones \in TargetBoneLists, anim \in AvatarAnimData :
                      target' = [bones |-> bones,
                                 mode |-> "OBJECT",
                                 animation_data |-> anim,
                                 constraints |-> [b \in Range(bones) |-> <<>>]]
          /\ pc' = AfterAvatarImport(found)
    /\ UNCHANGED <<SELECTED_ANIMATIONS, dir, fbx_files, results,
                   imported_count, source, constrained_count, verify_ok, output>>

(* main(): choose fbx_files, imported_count = 0 *)
SelectFiles ==
    /\ pc = "select_files"
    /\ fbx_files' \in FbxFileLists(SELECTED_ANIMATIONS, dir)
    /\ imported_count' = 0
    /\ pc' = Enter(AfterStep("select_files"), Len(results), fbx_files')
    /\ UNCHANGED <<calls, objects, target, SELECTED_ANIMATIONS, dir, results,
                   source, constrained_count, verify_ok, output>>

(* import_and_transfer_animation returns `action` to main()'s loop body:
   `if action: imported_count += 1`, then the next file or the loop's end *)
Return_CountAll(outcome, action) ==
    /\ results' = Append(results, [clip |-> fbx_files[Len(results) + 1],
                                   outcome |-> outcome,
                                   action |-> action])
    /\ imported_count' = imported_count + 1
    /\ pc' = Enter("clips", Len(results) + 1, fbx_files)

Return(outcome, action) ==
    /\ results' = Append(results, [clip |-> fbx_files[Len(results) + 1],
                                   outcome |-> outcome,
                                   action |-> action])
    /\ imported_count' = IF action # None THEN imported_count + 1 ELSE imported_count
    /\ pc' = Enter("clips", Len(results) + 1, fbx_files)

(* import_and_transfer_animation, up to the two early returns *)
ImportFbx ==
    /\ pc = "clips"
    /\ calls' = Append(calls, "import_and_transfer_animation")
    /\ LET k == Len(results) + 1 IN
       \E imp \in FbxImports :
          LET with == objects \cup Imported(k, imp.armature, imp.meshes) IN
          IF ~imp.armature
          THEN /\ objects' = with
               /\ Return("no_armature", None)
               /\ UNCHANGED source
          ELSE IF imp.animation # "action"
          THEN /\ objects' = Remove(with, Armature(k))
               /\ Return("no_animation", None)
               /\ UNCHANGED source
          ELSE /\ objects' = with
               /\ source' = [idx |-> k, bones |-> imp.bones]
               /\ pc' = "add_constraints"
               /\ UNCHANGED <<results, imported_count>>
    /\ UNCHANGED <<target, SELECTED_ANIMATIONS, dir, fbx_files,
                   constrained_count, verify_ok, output>>

(* import_and_transfer_animation: pose mode and the constraint loop *)
AddConstraints ==
    /\ pc = "add_constraints"
    /\ LET r == ConstrainBones(target.bones, 1, source, target.constraints, 0) IN
          /\ target' = [target EXCEPT !.mode = "POSE", !.constraints = r.constraints]
          /\ constrained_count' = r.count
    /\ pc' = "nla_bake"
    /\ UNCHANGED <<calls, objects, SELECTED_ANIMATIONS, dir, fbx_files, results,
                   imported_count, source, verify_ok, output>>

(* bpy.ops.nla.bake(..., clear_constraints=True): the host leaves animation
   data on the target, with a new active action or with none; a bake that
   made an action has cleared the constraints, one that made none may not
   have. *)
NlaBake ==
    /\ pc = "nla_bake"
    /\ LET tracks == IF target.animation_data = None THEN <<>>
                     ELSE target.animation_data.nla_tracks
           cleared == [b \in DOMAIN target.constraints |-> <<>>]
       IN  \/ \E l \in BakedLayers :
                target' = [target EXCEPT
                    !.animation_data = [action |-> Action(<<"A", "c", "t", "i", "o", "n">>, l),
                                        nla_tracks |-> tracks],
                    !.constraints = cleared]
           \/ \E c \in {cleared, target.constraints} :
                target' = [target EXCEPT
                    !.animation_data = [action |-> None, nla_tracks |-> tracks],
                    !.constraints = c]
    /\ pc' = "stash"
    /\ UNCHANGED <<calls, objects, SELECTED_ANIMATIONS, dir, fbx_files, results,
                   imported_count, source, constrained_count, verify_ok, output>>

(* nla_tracks.new(), track.name, track.strips.new(name, frame_start, action) *)
StashTrack_NoStrip(nla_tracks, animation_name, baked_action) ==
    Append(nla_tracks, [name |-> animation_name, strips |-> <<>>])

StashTrack(nla_tracks, animation_name, baked_action) ==
    Append(nla_tracks,
           [name |-> animation_name,
            strips |-> << [name |-> animation_name, action |-> baked_action] >>])

(* import_and_transfer_animation: name and stash the baked action, clean up *)
StashBaked ==
    /\ pc = "stash"
    /\ LET baked_action == target.animation_data.action
           animation_name == AnimationName(fbx_files[source.idx])
       IN  IF baked_action = None
           THEN /\ target' = [target EXCEPT !.mode = "OBJECT"]
                /\ objects' = Remove(objects, Armature(source.idx))
                /\ Return("no_bake", None)
           ELSE LET named == [baked_action EXCEPT !.name = animation_name]
                IN  /\ target' = [target EXCEPT
                           !.animation_data =
                               [action |-> None,
                                nla_tracks |-> StashTrack(@.nla_tracks, animation_name, named)],
                           !.mode = "OBJECT"]
                    /\ objects' = (objects \ Children(objects, source.idx))
                                      \ {Armature(source.idx)}
                    /\ Return("ok", named)
    /\ source' = None
    /\ UNCHANGED <<calls, SELECTED_ANIMATIONS, dir, fbx_files,
                   constrained_count, verify_ok, output>>

(* main(): `if not verify_animations(armature)` only prints a warning *)
AfterVerify_Abort(ok) ==
    IF ok THEN Enter(AfterStep("verify_animations"), Len(results), fbx_files) ELSE "done"

AfterVerify(ok) == Enter(AfterStep("verify_animations"), Len(results), fbx_files)

(* main(): Step 3, verify_animations(armature) *)
VerifyAnimations ==
    /\ pc = "verify_animations"
    /\ calls' = Append(calls, "verify_animations")
    /\ verify_ok' = Append(verify_ok, verify_animations(target))
    /\ pc' = AfterVerify(verify_animations(target))
    /\ UNCHANGED <<objects, target, SELECTED_ANIMATIONS, dir, fbx_files, results,
                   imported_count, source, constrained_count, output>>

(* main(): export_glb(OUTPUT_PATH, armature): the armature and its children
   are selected and written with the NLA strips as animations *)
ExportGlb ==
    /\ pc = "export_glb"
    /\ calls' = Append(calls, "export_glb")
    /\ output' = Append(output,
           [objects |-> {o \in objects : o = Armature(0)} \cup Children(objects, 0),
            animations |-> IF target.animation_data = None THEN <<>>
                           ELSE [i \in DOMAIN target.animation_data.nla_tracks |->
                                    target.animation_data.nla_tracks[i].name]])
    /\ pc' = Enter(AfterStep("export_glb"), Len(results), fbx_files)
    /\ UNCHANGED <<objects, target, SELECTED_ANIMATIONS, dir, fbx_files, results,
                   imported_count, source, constrained_count, verify_ok>>

Next ==
    \/ ClearScene
    \/ ImportGlbAvatar
    \/ SelectFiles
    \/ ImportFbx
    \/ AddConstraints
    \/ NlaBake
    \/ StashBaked
    \/ VerifyAnimations
    \/ ExportGlb

Spec == Init /\ [][Next]_vars

----------------------------------------------------------------------------
(* verify_animations on its own: main() at Step 3 with no clip to process,  *)
(* the avatar's armature carrying any animation data of the sets below.     *)

NlaStrips ==
    { [name |-> <<"s">>, action |-> a]
        : a \in {None} \cup {Action(<<"s">>, l) : l \in ActionLayers} }

NlaTrack(strips) == [name |-> <<"t">>, strips |-> strips]

NlaTrackLists ==
    BSeq({NlaTrack(s) : s \in BSeq(NlaStrips, 1)}, MaxTracks)
        \cup { <<NlaTrack(s)>> : s \in [1..MaxStrips -> NlaStrips] }

VerifyAnimData ==
    {None} \cup { [action |-> None, nla_tracks |-> t] : t \in NlaTrackLists }

InitVerify ==
    /\ pc = "verify_animations"
    /\ calls = <<"clear_scene", "import_glb_avatar">>
    /\ objects = Imported(0, TRUE, MaxChildren)
    /\ \E anim \in VerifyAnimData :
          target = [bones |-> <<"Hips", "Spine", "Head">>,
                    mode |-> "OBJECT",
                    animation_data |-> anim,
                    constraints |-> [b \in {"Hips", "Spine", "Head"} |-> <<>>]]
    /\ SELECTED_ANIMATIONS = <<>>
    /\ dir = {}
    /\ fbx_files = <<>>
    /\ results = <<>>
    /\ imported_count = 0
    /\ source = None
    /\ constrained_count = 0
    /\ verify_ok = <<>>
    /\ output = <<>>

NextVerify ==
    \/ VerifyAnimations
    \/ ExportGlb

SpecVerify == InitVerify /\ [][NextVerify]_vars

----------------------------------------------------------------------------
(* Properties *)

ClipCall == "import_and_transfer_animation"

InClip == pc \in {"add_constraints", "nla_bake", "stash"}

Count(s, x) == Cardinality({i \in DOMAIN s : s[i] = x})

IsPrefix(s, t) == Len(s) <= Len(t) /\ \A i \in DOMAIN s : s[i] = t[i]

(* the calls of a whole run that processes n clips *)
Pipeline(n) ==
    <<"clear_scene", "import_glb_avatar">> \o [i \in 1..n |-> ClipCall]
        \o <<"verify_animations", "export_glb">>

TracksOf(armature) ==
    IF armature.animation_data = None THEN <<>> ELSE armature.animation_data.nla_tracks

(* C1: the calls main() has made are always a prefix of clear scene, import
   avatar, the clips one after another, verify, export; the steps inside a
   clip run only while that clip's call is the latest one, with no other
   clip open; clear, avatar import, verify and export happen at most once. *)
C1_LinearPipeline ==
    /\ \E n \in 0..Len(calls) : IsPrefix(calls, Pipeline(n))
    /\ \A c \in {"clear_scene", "import_glb_avatar", "verify_animations", "export_glb"} :
          Count(calls, c) <= 1
    /\ InClip => /\ calls[Len(calls)] = ClipCall
                 /\ source # None
                 /\ Count(calls, ClipCall) = Len(results) + 1
    /\ ~InClip => /\ source = None
                  /\ Count(calls, ClipCall) = Len(results)
    /\ Len(verify_ok) = Count(calls, "verify_animations")
    /\ Len(output) = Count(calls, "export_glb")

C1_Witness ==
    /\ pc = "done"
    /\ calls = Pipeline(2)
    /\ results[1].outcome = "ok"

(* C2: when the avatar import leaves no armature in the scene the run has
   raised: it made no call after import_glb_avatar, processed no clip, ran
   no verification, wrote no file, and takes no further step. *)
C2_NoArmatureIsFatal ==
    /\ (Count(calls, "import_glb_avatar") > 0 /\ Armature(0) \notin objects)
          => pc = "raised"
    /\ pc = "raised" =>
          /\ Armature(0) \notin objects
          /\ calls = <<"clear_scene", "import_glb_avatar">>
          /\ results = <<>>
          /\ verify_ok = <<>>
          /\ output = <<>>
          /\ ~ENABLED Next

C2_Witness == pc = "raised" /\ calls # <<>>

(* a step in which import_and_transfer_animation returned by `outcome` *)
Returned(outcome) ==
    /\ Len(results') = Len(results) + 1
    /\ results'[Len(results')].outcome = outcome

(* C3: a clip whose source armature has no animation data or no action is
   only skipped: the call returns None, the target armature (constraints,
   NLA tracks, active action) and imported_count are as before, nothing is
   raised and main() is at the next clip or, after the last, at verify; once
   past the loop every file has been processed, and a run that got its
   avatar never stops before export is done. *)
C3_SkipOnly ==
    /\ [][Returned("no_animation") =>
            /\ results'[Len(results')].action = None
            /\ target' = target
            /\ imported_count' = imported_count
            /\ pc' = IF Len(results') < Len(fbx_files) THEN "clips" ELSE "verify_animations"
         ]_vars
    /\ [](pc \in {"verify_animations", "export_glb", "done"}
              => Len(results) = Len(fbx_files))
    /\ []((target # None /\ pc # "done") => ENABLED Next)

C3_Witness ==
    /\ pc = "done"
    /\ Len(results) = 2
    /\ results[1].outcome = "no_animation"
    /\ results[2].outcome = "ok"
    /\ imported_count = 1
    /\ Len(output) = 1

(* C4: export_glb is never called twice, and a run whose avatar import
   succeeded ends only after exactly one verification and exactly one
   export, whatever the verification returned. *)
C4_ExportNotBlocked ==
    /\ Len(output) <= 1
    /\ pc = "done" => Len(verify_ok) = 1 /\ Len(output) = 1
    /\ (Armature(0) \in objects /\ pc # "done") => ENABLED Next
    /\ (pc = "export_glb" /\ verify_ok # <<>>) => ENABLED ExportGlb

C4_Witness ==
    /\ pc = "done"
    /\ verify_ok = <<FALSE>>
    /\ imported_count = 0
    /\ TracksOf(target) = <<>>
    /\ Len(output) = 1

(* C5 as claimed: whenever the verification has run, the export was
   performed before it. *)
C5_VerifyAfterExport ==
    \A i \in DOMAIN calls :
        calls[i] = "verify_animations"
            => \E j \in 1..(i - 1) : calls[j] = "export_glb"

(* C5 as amended: the verification is a pre-export pass: whenever the
   export has been called, the verification ran before it, and while the
   verification has not run nothing has been written. *)
C5_VerifyBeforeExport ==
    /\ \A i \in DOMAIN calls :
          calls[i] = "export_glb"
              => \E j \in 1..(i - 1) : calls[j] = "verify_animations"
    /\ verify_ok = <<>> => output = <<>>

C5_Witness ==
    /\ Count(calls, "verify_animations") = 1
    /\ Count(calls, "export_glb") = 1
    /\ output # <<>>

Exists(f) == f \in dir

(* C6: with a non-empty SELECTED_ANIMATIONS, fbx_files is the listed names
   that exist in the directory, in list order (possibly none); with an empty
   one it is the *.fbx files of the directory, each once.  The i-th call
   processes the i-th file, every file is passed once, and the loop is left
   only when all have been. *)
C6_ClipSelection ==
    pc \notin {"clear_scene", "import_glb_avatar", "select_files", "raised"} =>
        /\ IF SELECTED_ANIMATIONS # <<>>
           THEN fbx_files = SelectSeq(SELECTED_ANIMATIONS, Exists)
           ELSE /\ Range(fbx_files) = {f \in dir : f.suffix = ".fbx"}
                /\ NoDup(fbx_files)
        /\ Len(results) <= Len(fbx_files)
        /\ \A i \in DOMAIN results : results[i].clip = fbx_files[i]
        /\ Count(calls, ClipCall) = Len(results) + (IF InClip THEN 1 ELSE 0)
        /\ pc \in {"verify_animations", "export_glb", "done"}
              => Len(results) = Len(fbx_files)

C6_Witness ==
    /\ pc = "done"
    /\ SELECTED_ANIMATIONS # <<>>
    /\ Range(SELECTED_ANIMATIONS) \cap dir = {}
    /\ \E f \in dir : f.suffix = ".fbx"
    /\ fbx_files = <<>>
    /\ Count(calls, ClipCall) = 0

RECURSIVE Flatten(_)
Flatten(ss) == IF ss = <<>> THEN <<>> ELSE Head(ss) \o Flatten(Tail(ss))

(* the keyframes of the first fcurve of the first non-empty channelbag of
   an action, 0 if there is none *)
FirstKeyframes(action) ==
    LET bags == Flatten(Flatten(action.layers))
        full == {i \in DOMAIN bags : bags[i] # <<>>}
    IN  IF full = {} THEN 0
        ELSE bags[CHOOSE i \in full : \A j \in full : i <= j][1]

Flagged(armature) ==
    \/ armature.animation_data = None
    \/ \E t \in DOMAIN TracksOf(armature) :
          \E i \in DOMAIN TracksOf(armature)[t].strips :
             LET strip == TracksOf(armature)[t].strips[i]
             IN  \/ strip.action = None
                 \/ FirstKeyframes(strip.action) <= 2

(* C7: verify_animations returns False exactly when the armature has no
   animation data, or a strip of a track has no action, or a strip's action
   has 2 or fewer keyframes (first fcurve of the first non-empty channelbag,
   0 without one), True otherwise; and the call changes neither the scene's
   objects nor the armature. *)
C7_VerifyResult ==
    /\ [](verify_ok # <<>> => verify_ok[1] = ~Flagged(target))
    /\ [][verify_ok' # verify_ok => (objects' = objects /\ target' = target)]_vars

C7_Witness ==
    /\ verify_ok = <<TRUE>>
    /\ target.animation_data # None
    /\ TracksOf(target) = <<>>

(* the constraints of a bone that point at the current source armature *)
Mine(bone) ==
    SelectSeq(target.constraints[bone], LAMBDA c : c.target = source.idx)

(* C8: when the bake starts, each target bone whose name the source has
   carries exactly one COPY_ROTATION constraint on the source, WORLD to
   WORLD, with the bone's own name as subtarget, and, only if it is "Hips",
   one COPY_LOCATION constraint of the same kind; a target bone the source
   lacks carries none; constrained_count is the number of shared names. *)
C8_ConstraintsBeforeBake ==
    pc = "nla_bake" =>
        /\ \A b \in Range(target.bones) :
              IF b \in source.bones
              THEN /\ Count(Mine(b), Constraint("COPY_ROTATION", source.idx, b)) = 1
                   /\ Count(Mine(b), Constraint("COPY_LOCATION", source.idx, b))
                         = IF b = "Hips" THEN 1 ELSE 0
                   /\ Len(Mine(b)) = IF b = "Hips" THEN 2 ELSE 1
              ELSE Mine(b) = <<>>
        /\ constrained_count = Cardinality(Range(target.bones) \cap source.bones)
        /\ target.mode = "POSE"

C8_Witness ==
    /\ pc = "nla_bake"
    /\ source.bones = {"Hips", "Spine"}
    /\ target.bones = <<"Hips", "Spine", "Head">>
    /\ constrained_count = 2
    /\ Len(target.constraints["Hips"]) = 2
    /\ Len(target.constraints["Spine"]) = 1
    /\ target.constraints["Head"] = <<>>

(* C9 as claimed: after import_and_transfer_animation has returned for a
   clip, on whichever path, neither that clip's source armature nor any
   object imported as its child is in the scene, and the target armature is
   in OBJECT mode with no active action. *)
C9_SourceCleanedUp ==
    /\ \A i \in DOMAIN results :
          results[i].outcome # "no_armature" => ~\E o \in objects : o.from = i
    /\ (results # <<>> /\ ~InClip) =>
          /\ target.mode = "OBJECT"
          /\ (target.animation_data # None => target.animation_data.action = None)

(* C10: imported_count is the number of finished calls that returned an
   action, never more than the number of finished calls; and every step
   that counts a clip appends exactly one NLA track, holding exactly one
   strip that references the returned action, while every other step
   leaves the armature's tracks as they are. *)
C10_CountMatchesTracks ==
    /\ [](/\ imported_count = Cardinality({i \in DOMAIN results : results[i].action # None})
          /\ imported_count <= Len(results)
          /\ \A i \in DOMAIN results :
                results[i].action # None <=> results[i].outcome = "ok")
    /\ [][(target # None /\ target' # None) =>
            IF imported_count' = imported_count + 1
            THEN /\ Len(TracksOf(target')) = Len(TracksOf(target)) + 1
                 /\ IsPrefix(TracksOf(target), TracksOf(target'))
                 /\ LET track == TracksOf(target')[Len(TracksOf(target'))]
                    IN  /\ Len(track.strips) = 1
                        /\ track.strips[1].action = results'[Len(results')].action
                        /\ track.strips[1].action # None
            ELSE /\ imported_count' = imported_count
                 /\ TracksOf(target') = TracksOf(target)
         ]_vars

C10_Witness ==
    /\ pc = "clips"
    /\ Len(results) = 1
    /\ imported_count = 1
    /\ Len(TracksOf(target)) = 2
    /\ TracksOf(target)[2].strips[1].action = results[1].action

====
